---- MODULE Spec2Model ----
(***************************************************************************)
(* ReportGenerator (app/reports.py): four report pipelines over a sqlite   *)
(* vehicle-sales database, each a join -> null-drop -> filter -> group ->  *)
(* sort -> to_csv sequence, plus the connection lifecycle of the object.   *)
(*                                                                         *)
(* A table (a pandas DataFrame) is a sequence of rows; a row is a record.  *)
(* Columns read from the database hold plain values.  A column that a      *)
(* left join adds holds Some(v) = <<v>>, or NaN = <<>> where the left row  *)
(* found no match.  Dates are integers yyyymmdd, whose order is the order  *)
(* of the dates.  Strings are ordered by StrRank.                          *)
(***************************************************************************)
EXTENDS Integers, Sequences, FiniteSets, TLC

VARIABLES
    db,              \* the file at dbname: "missing", "notables" or "ok"
    Sales,           \* table Sales, in storage order
    Invoices,        \* table Invoices
    Customers,       \* table Customers
    Vehicles,        \* table Vehicles
    Vehicle_models,  \* table Vehicle_models
    obj,             \* the ReportGenerator: "none", "live" or "deleted"
    con,             \* self.con: "unset", "open" or "closed"
    op,              \* the last method called
    ret,             \* what it returned: Some(0), Some(1), or NaN for nothing
    raised,          \* whether it raised
    dest,            \* whether the file it was to write could be written
    log,             \* the level of the last record it logged, or "none"
    df,              \* the frame the last report handed to __to_csv
    out              \* the rows the last report wrote to its file

vars == <<db, Sales, Invoices, Customers, Vehicles, Vehicle_models,
          obj, con, op, ret, raised, dest, log, df, out>>

tables == <<db, Sales, Invoices, Customers, Vehicles, Vehicle_models>>

----------------------------------------------------------------------------
(* Bounds of the datasets                                                  *)

\* most sales of a dataset of Spec
MaxSales == 2
\* most sales of a dataset of SpecBrand
MaxBrandSales == 4
\* most sales of a dataset of SpecCust
MaxCustSales == 2
\* most sales of a dataset of SpecNext
MaxNextSales == 3

----------------------------------------------------------------------------
(* Values                                                                  *)

NaN == <<>>

Some(v) == <<v>>

\* dt.datetime(2020, 1, 1)
NewBound == 20200101

\* dt.datetime(2016, 1, 1)
OldBound == 20160101

Dates == {20151231, 20160101, 20200101, 20200102}

NextDates == {20160101, 20200101}

\* Python's order of the strings of the datasets
StrRank(s) ==
    CASE s = "A4"   -> 1
      [] s = "Adam" -> 2
      [] s = "Audi" -> 3
      [] s = "BMW"  -> 4
      [] s = "X5"   -> 5
      [] s = "Zoe"  -> 6

\* the columns a left join can leave null
NullableCols == {"vehicle_model_id", "vehicle_year", "brand_name", "model_name"}

VehiclesCols == {"vehicle_id", "vehicle_model_id", "vehicle_year"}

ModelsCols == {"vehicle_model_id", "brand_name", "model_name"}

CustomersTable ==
    << [customer_id |-> 1, customer_name |-> "Zoe"],
       [customer_id |-> 2, customer_name |-> "Adam"] >>

\* vehicle 3 is of a model that Vehicle_models lacks; no vehicle 4 exists
VehiclesTable ==
    << [vehicle_id |-> 1, vehicle_model_id |-> 1, vehicle_year |-> 2015],
       [vehicle_id |-> 2, vehicle_model_id |-> 2, vehicle_year |-> 2019],
       [vehicle_id |-> 3, vehicle_model_id |-> 3, vehicle_year |-> 2010] >>

ModelsTable ==
    << [vehicle_model_id |-> 1, brand_name |-> "Audi", model_name |-> "A4"],
       [vehicle_model_id |-> 2, brand_name |-> "BMW", model_name |-> "X5"] >>

----------------------------------------------------------------------------
(* pandas                                                                  *)

RECURSIVE Flatten(_)
Flatten(ss) == IF ss = <<>> THEN <<>> ELSE Head(ss) \o Flatten(Tail(ss))

\* pd.merge(left, right, on=key): the rows of left, in left's order, each
\* joined with every row of right of the same key
MergeInner(left, right, key) ==
    Flatten([i \in 1..Len(left) |->
        LET m == SelectSeq(right, LAMBDA r : r[key] = left[i][key])
        IN  [j \in 1..Len(m) |-> left[i] @@ m[j]]])

\* pd.merge(left, right, on=key, how='left'); leftOpt: left's key column
\* was itself added by a left join
MergeLeft(left, right, key, cols, leftOpt) ==
    Flatten([i \in 1..Len(left) |->
        LET m == SelectSeq(right, LAMBDA r :
                     IF leftOpt THEN left[i][key] = Some(r[key])
                                ELSE left[i][key] = r[key])
        IN  IF m = <<>>
            THEN << left[i] @@ [c \in cols \ {key} |-> NaN] >>
            ELSE [j \in 1..Len(m) |->
                     left[i] @@ [c \in cols \ {key} |-> Some(m[j][c])]]])

IsNull(row) == \E c \in NullableCols \cap DOMAIN row : row[c] = NaN

\* if any(df.isnull().sum() > 0): df.dropna(inplace=True)
DropNa(frame) == SelectSeq(frame, LAMBDA r : ~IsNull(r))

RECURSIVE SumSeq(_)
SumSeq(s) == IF s = <<>> THEN 0 ELSE Head(s) + SumSeq(Tail(s))

Column(frame, c) == [i \in 1..Len(frame) |-> frame[i][c]]

\* the orders of the indices S in which i comes before j only if
\* <<i, j>> \in le: every result an unstable sort (kind='quicksort') may give
RECURSIVE SortedOrders(_, _)
SortedOrders(S, le) ==
    IF S = {} THEN {<<>>}
    ELSE LET least == {i \in S : \A j \in S : <<i, j>> \in le}
         IN  UNION {{<<i>> \o t : t \in SortedOrders(S \ {i}, le)} : i \in least}

\* the one of those orders that keeps ties in index order: the result of a
\* stable sort (np.lexsort)
RECURSIVE StableOrder(_, _)
StableOrder(S, le) ==
    IF S = {} THEN <<>>
    ELSE LET least == {i \in S : \A j \in S : <<i, j>> \in le}
             i == CHOOSE k \in least : \A j \in least : k <= j
         IN  <<i>> \o StableOrder(S \ {i}, le)

\* the keys K in ascending order of rank: the group order of groupby(sort=True)
RECURSIVE SortKeys(_, _)
SortKeys(K, rank) ==
    IF K = {} THEN <<>>
    ELSE LET k == CHOOSE x \in K : \A y \in K : rank[x] <= rank[y]
         IN  <<k>> \o SortKeys(K \ {k}, rank)

Range(s) == {s[i] : i \in 1..Len(s)}

\* agg 'first' on a column a left join added: the first value that is not
\* null, in the group's row order; null when the group has none.  (On a
\* column that holds no null it is the value of the group's first row.)
RECURSIVE First(_)
First(cells) ==
    IF cells = <<>> THEN NaN
    ELSE IF Head(cells) # NaN THEN Head(cells) ELSE First(Tail(cells))

\* agg 'max' of a column of integers of a group, which is never empty
Max(cells) == CHOOSE m \in Range(cells) : \A x \in Range(cells) : x <= m

Reorder(frame, order) == [i \in 1..Len(order) |-> frame[order[i]]]

\* Mode with the values left in the order they are first met
ModeFirstMet(cells) ==
    LET vals       == Range(cells) \ {NaN}
        count(v)   == Cardinality({i \in 1..Len(cells) : cells[i] = v})
        most       == {v \in vals : \A w \in vals : count(w) <= count(v)}
        met(v)     == CHOOSE i \in 1..Len(cells) :
                          cells[i] = v /\ \A j \in 1..(i - 1) : cells[j] # v
    IN  SortKeys(most, [v \in most |-> met(v)])

\* Series.mode: the values that are not null and occur most often, sorted
\* ascending (empty when every value is null)
Mode(cells) ==
    LET vals       == Range(cells) \ {NaN}
        count(v)   == Cardinality({i \in 1..Len(cells) : cells[i] = v})
        most       == {v \in vals : \A w \in vals : count(w) <= count(v)}
    IN  SortKeys(most, [v \in most |-> StrRank(v[1])])

\* df.to_csv(filename, columns=columns): the index and the chosen columns
Project(frame, columns) ==
    [i \in 1..Len(frame) |-> [c \in columns \cup {"index"} |-> frame[i][c]]]

----------------------------------------------------------------------------
(* ReportGenerator                                                         *)

\* __to_csv that returns 0 from its except branch too
ToCsvAlwaysZero(frame, columns, writable) ==
    IF writable THEN [ret |-> 0, out |-> Project(frame, columns)]
                ELSE [ret |-> 0, out |-> <<>>]

\* __to_csv: 0 and the rows written, or 1 when to_csv raised
ToCsv(frame, columns, writable) ==
    IF writable THEN [ret |-> 0, out |-> Project(frame, columns)]
                ELSE [ret |-> 1, out |-> <<>>]

\* pd.read_sql_query raises unless self.con is an open connection to a
\* database that holds the tables
CanQuery == con = "open" /\ db = "ok"

\* sales_by_brand: join df's by Foreign keys
BrandJoin ==
    MergeLeft(
        MergeLeft(MergeInner(Sales, Invoices, "invoice_id"),
                  Vehicles, "vehicle_id", VehiclesCols, FALSE),
        Vehicle_models, "vehicle_model_id", ModelsCols, TRUE)

\* BrandAgg with 'price': 'max' for 'price': 'sum'
BrandAggMax(k, brand, g) ==
    [index       |-> k - 1,
     vehicle_brand |-> brand,
     n_sales     |-> Len(g),
     total_value |-> Max(Column(g, "price"))]

\* .agg({'sale_id': 'size', 'price': 'sum'}) of the group g of brand, the
\* k-th group, with the columns renamed
BrandAgg(k, brand, g) ==
    [index       |-> k - 1,
     vehicle_brand |-> brand,
     n_sales     |-> Len(g),
     total_value |-> SumSeq(Column(g, "price"))]

\* df.groupby('brand_name', as_index=False)
BrandGroups(frame) ==
    LET K    == {frame[i].brand_name : i \in 1..Len(frame)}
        keys == SortKeys(K, [b \in K |-> StrRank(b[1])])
    IN  [k \in 1..Len(keys) |->
            BrandAgg(k, keys[k], SelectSeq(frame, LAMBDA r : r.brand_name = keys[k]))]

\* BrandBefore of sort_values(['n_sales'], ascending=False)
BrandBeforeBySales(a, b) == a.n_sales >= b.n_sales

\* sort_values(['n_sales', 'total_value'], ascending=False): row a may
\* come before row b
BrandBefore(a, b) ==
    \/ a.n_sales > b.n_sales
    \/ a.n_sales = b.n_sales /\ a.total_value >= b.total_value

SalesByBrandFrame ==
    LET g == BrandGroups(DropNa(BrandJoin))
        S == 1..Len(g)
    IN  Reorder(g, StableOrder(S, {p \in S \X S : BrandBefore(g[p[1]], g[p[2]])}))

BrandColumns == {"vehicle_brand", "n_sales", "total_value"}

\* new_customers, old_customers, next_vehicle: the same three merges
CustomerJoin ==
    MergeLeft(
        MergeLeft(MergeInner(Sales, Customers, "customer_id"),
                  Vehicles, "vehicle_id", VehiclesCols, FALSE),
        Vehicle_models, "vehicle_model_id", ModelsCols, TRUE)

\* NewFilter with > for >=
NewFilterAfter(frame) == SelectSeq(frame, LAMBDA r : r.sale_dt > NewBound)

\* df[df.sale_dt >= dt.datetime(2020, 1, 1)]
NewFilter(frame) == SelectSeq(frame, LAMBDA r : r.sale_dt >= NewBound)

\* df[df.sale_dt <= dt.datetime(2016, 1, 1)]
OldFilter(frame) == SelectSeq(frame, LAMBDA r : r.sale_dt <= OldBound)

\* .agg({'sale_dt': 'max', 'customer_name': 'first', 'brand_name': 'first',
\*       'model_name': 'first', 'vehicle_year': 'first'}) of the group g of
\* customer c, the k-th group, with the columns renamed
LatestAgg(k, c, g) ==
    [index         |-> k - 1,
     customer_id   |-> c,
     sale_dt       |-> Max(Column(g, "sale_dt")),
     customer_name |-> Head(Column(g, "customer_name")),
     vehicle_brand |-> First(Column(g, "brand_name")),
     vehicle_model |-> First(Column(g, "model_name")),
     vehicle_year  |-> First(Column(g, "vehicle_year"))]

\* df.groupby('customer_id', as_index=False)
CustomerGroups(frame) ==
    LET K    == {frame[i].customer_id : i \in 1..Len(frame)}
        keys == SortKeys(K, [c \in K |-> c])
    IN  [k \in 1..Len(keys) |->
            LatestAgg(k, keys[k], SelectSeq(frame, LAMBDA r : r.customer_id = keys[k]))]

\* df.sort_values(['customer_name']): the frames the sort may leave
SortByName(g) ==
    LET S == 1..Len(g)
    IN  {Reorder(g, o) : o \in SortedOrders(S,
            {p \in S \X S : StrRank(g[p[1]].customer_name)
                              <= StrRank(g[p[2]].customer_name)})}

NewCustomersFrames == SortByName(CustomerGroups(NewFilter(DropNa(CustomerJoin))))

OldCustomersFrames == SortByName(CustomerGroups(OldFilter(DropNa(CustomerJoin))))

CustomerColumns ==
    {"customer_name", "vehicle_brand", "vehicle_model", "vehicle_year", "sale_dt"}

\* customers_id = df.groupby('customer_id')['sale_dt'].size()
\* customers_id = customers_id[customers_id > 1]
\* df = df[df.customer_id.isin(customers_id.index.values)]
Repeat(frame) ==
    SelectSeq(frame, LAMBDA r :
        Cardinality({i \in 1..Len(frame) : frame[i].customer_id = r.customer_id}) > 1)

\* df.sort_values('sale_dt'): the frames the sort may leave
SortByDate(frame) ==
    LET S == 1..Len(frame)
    IN  {Reorder(frame, o) : o \in SortedOrders(S,
            {p \in S \X S : frame[p[1]].sale_dt <= frame[p[2]].sale_dt})}

\* the lambda x: pd.Series.mode(x)[0] raises on a group g whose brand_name
\* is null in every row
ModeRaises(g) == Mode(Column(g, "brand_name")) = <<>>

\* the row of customer c, whose sales are g in ascending sale_dt: the two
\* aggregations, merged on customer_id
NextAgg(c, g) ==
    [index                        |-> c,
     most_common_second_veh_brand |-> Mode(Column(g, "brand_name"))[1],
     first_veh_brand              |-> First(Column(g, "brand_name"))]

\* df.groupby('customer_id')
NextGroups(frame) ==
    LET K    == {frame[i].customer_id : i \in 1..Len(frame)}
        keys == SortKeys(K, [c \in K |-> c])
    IN  [k \in 1..Len(keys) |->
            NextAgg(keys[k], SelectSeq(frame, LAMBDA r : r.customer_id = keys[k]))]

\* sort_values(['first_veh_brand']), nulls last: cell a may come before b
FirstBefore(a, b) ==
    \/ b = NaN
    \/ a # NaN /\ StrRank(a[1]) <= StrRank(b[1])

\* df_.sort_values(['first_veh_brand']): the frames the sort may leave
SortByFirst(g) ==
    LET S == 1..Len(g)
    IN  {Reorder(g, o) : o \in SortedOrders(S,
            {p \in S \X S : FirstBefore(g[p[1]].first_veh_brand,
                                        g[p[2]].first_veh_brand)})}

NextVehicleRaises ==
    LET frame == Repeat(CustomerJoin)
    IN  \E i \in 1..Len(frame) :
            ModeRaises(SelectSeq(frame, LAMBDA r : r.customer_id = frame[i].customer_id))

NextVehicleFrames ==
    UNION {SortByFirst(NextGroups(f)) : f \in SortByDate(Repeat(CustomerJoin))}

NextColumns == {"most_common_second_veh_brand", "first_veh_brand"}

----------------------------------------------------------------------------
(* Datasets                                                                *)

\* a template is one sale with its invoice, if it has one

\* sales that differ in vehicle and invoice
BrandTemplates ==
    [c : {1}, v : {1, 2, 3}, d : {20200101}, inv : {TRUE}, price : {100, 250}]
        \cup [c : {1}, v : {1, 2, 3}, d : {20200101}, inv : {FALSE}, price : {100}]

\* sales that differ in customer, vehicle and date, about both bounds;
\* Customers holds no customer 3
CustTemplates ==
    [c : {1, 2}, v : {1, 2, 4}, d : Dates, inv : {TRUE}, price : {100}]
        \cup [c : {3}, v : {1}, d : {20160101, 20200101}, inv : {TRUE}, price : {100}]

\* sales that differ in customer, vehicle and date
NextTemplates ==
    [c : {1, 2}, v : {1, 2, 3}, d : NextDates, inv : {TRUE}, price : {100}]

SeqsUpTo(T, n) == UNION {[1..k -> T] : k \in 0..n}

RECURSIVE InvoicesOf(_, _)
InvoicesOf(f, i) ==
    IF i > Len(f) THEN <<>>
    ELSE (IF f[i].inv THEN <<[invoice_id |-> i, price |-> f[i].price]>> ELSE <<>>)
             \o InvoicesOf(f, i + 1)

SalesOf(f) ==
    [i \in 1..Len(f) |->
        [sale_id |-> i, invoice_id |-> i, customer_id |-> f[i].c,
         vehicle_id |-> f[i].v, sale_dt |-> f[i].d]]

----------------------------------------------------------------------------
(* The state machine                                                       *)

\* before the object is made: the file at dbname is missing, or holds no
\* tables, or holds one of the datasets
InitOver(datasets) ==
    /\ db \in {"missing", "notables", "ok"}
    /\ IF db = "ok"
       THEN /\ \E f \in datasets : Sales = SalesOf(f) /\ Invoices = InvoicesOf(f, 1)
            /\ Customers = CustomersTable
            /\ Vehicles = VehiclesTable
            /\ Vehicle_models = ModelsTable
       ELSE /\ Sales = <<>> /\ Invoices = <<>> /\ Customers = <<>>
            /\ Vehicles = <<>> /\ Vehicle_models = <<>>
    /\ obj = "none"
    /\ con = "unset"
    /\ op = "none"
    /\ ret = NaN
    /\ raised = FALSE
    /\ dest = TRUE
    /\ log = "none"
    /\ df = <<>>
    /\ out = <<>>

\* __init__ that connects without looking for the file
ConstructConnects ==
    /\ obj = "none"
    /\ obj' = "live"
    /\ op' = "__init__"
    /\ con' = "open"
    /\ log' = "info"
    /\ ret' = NaN
    /\ raised' = FALSE
    /\ df' = <<>>
    /\ out' = <<>>
    /\ UNCHANGED <<tables, dest>>

\* __init__
Construct ==
    /\ obj = "none"
    /\ obj' = "live"
    /\ op' = "__init__"
    /\ IF db = "missing"
       THEN con' = con /\ log' = "error"
       ELSE con' = "open" /\ log' = "info"
    /\ ret' = NaN
    /\ raised' = FALSE
    /\ df' = <<>>
    /\ out' = <<>>
    /\ UNCHANGED <<tables, dest>>

\* __del__
Del ==
    /\ obj = "live"
    /\ obj' = "deleted"
    /\ op' = "__del__"
    /\ IF con = "unset"
       THEN con' = con /\ raised' = TRUE /\ log' = "none"
       ELSE con' = "closed" /\ raised' = FALSE /\ log' = "info"
    /\ ret' = NaN
    /\ df' = <<>>
    /\ out' = <<>>
    /\ UNCHANGED <<tables, dest>>

\* a report raises before it has a frame to write
Raise(name) ==
    /\ dest' \in BOOLEAN
    /\ op' = name
    /\ raised' = TRUE
    /\ ret' = NaN
    /\ log' = "none"
    /\ df' = <<>>
    /\ out' = <<>>

\* return self.__to_csv(df, filename, columns), the file writable or not
Return(name, frame, columns) ==
    \E writable \in BOOLEAN :
        LET w == ToCsv(frame, columns, writable)
        IN  /\ dest' = writable
            /\ op' = name
            /\ raised' = FALSE
            /\ ret' = Some(w.ret)
            /\ log' = IF w.ret = 0 THEN "info" ELSE "error"
            /\ df' = frame
            /\ out' = w.out

sales_by_brand ==
    /\ obj = "live"
    /\ IF CanQuery
       THEN Return("sales_by_brand", SalesByBrandFrame, BrandColumns)
       ELSE Raise("sales_by_brand")
    /\ UNCHANGED <<tables, obj, con>>

new_customers ==
    /\ obj = "live"
    /\ IF CanQuery
       THEN \E frame \in NewCustomersFrames :
                Return("new_customers", frame, CustomerColumns)
       ELSE Raise("new_customers")
    /\ UNCHANGED <<tables, obj, con>>

old_customers ==
    /\ obj = "live"
    /\ IF CanQuery
       THEN \E frame \in OldCustomersFrames :
                Return("old_customers", frame, CustomerColumns)
       ELSE Raise("old_customers")
    /\ UNCHANGED <<tables, obj, con>>

next_vehicle ==
    /\ obj = "live"
    /\ IF CanQuery /\ ~NextVehicleRaises
       THEN \E frame \in NextVehicleFrames :
                Return("next_vehicle", frame, NextColumns)
       ELSE Raise("next_vehicle")
    /\ UNCHANGED <<tables, obj, con>>

\* every method, over datasets of a few sales
Init == InitOver(SeqsUpTo(NextTemplates, MaxSales))

Next ==
    \/ Construct
    \/ sales_by_brand
    \/ new_customers
    \/ old_customers
    \/ next_vehicle
    \/ Del

Spec == Init /\ [][Next]_vars

\* sales_by_brand alone, over datasets that differ in vehicle and invoice
InitBrand == InitOver(SeqsUpTo(BrandTemplates, MaxBrandSales))

NextBrand == Construct \/ sales_by_brand \/ Del

SpecBrand == InitBrand /\ [][NextBrand]_vars

\* new_customers and old_customers, over datasets with dates about both bounds
InitCust == InitOver(SeqsUpTo(CustTemplates, MaxCustSales))

NextCust == Construct \/ new_customers \/ old_customers \/ Del

SpecCust == InitCust /\ [][NextCust]_vars

\* next_vehicle alone
InitNext == InitOver(SeqsUpTo(NextTemplates, MaxNextSales))

NextNext == Construct \/ next_vehicle \/ Del

SpecNext == InitNext /\ [][NextNext]_vars

----------------------------------------------------------------------------
(* What the reports are to hold, said of the tables themselves             *)

ReportOps == {"sales_by_brand", "new_customers", "old_customers", "next_vehicle"}

Rows(frame) == 1..Len(frame)

HasInvoice(s) == \E v \in Range(Invoices) : v.invoice_id = s.invoice_id

HasCustomer(s) == \E c \in Range(Customers) : c.customer_id = s.customer_id

HasModel(s) ==
    \E v \in Range(Vehicles) :
        /\ v.vehicle_id = s.vehicle_id
        /\ \E m \in Range(Vehicle_models) : m.vehicle_model_id = v.vehicle_model_id

InvoiceOf(s) == CHOOSE v \in Range(Invoices) : v.invoice_id = s.invoice_id

VehicleOf(s) == CHOOSE v \in Range(Vehicles) : v.vehicle_id = s.vehicle_id

ModelOf(s) ==
    CHOOSE m \in Range(Vehicle_models) :
        m.vehicle_model_id = VehicleOf(s).vehicle_model_id

\* the brand of a sale, null when its vehicle or its model is absent
BrandCell(s) == IF HasModel(s) THEN Some(ModelOf(s).brand_name) ELSE NaN

\* the sales of customer c that qualify for new_customers, for old_customers
QualNew(c) ==
    {i \in Rows(Sales) : /\ Sales[i].customer_id = c
                         /\ HasCustomer(Sales[i]) /\ HasModel(Sales[i])
                         /\ Sales[i].sale_dt >= 20200101}

QualOld(c) ==
    {i \in Rows(Sales) : /\ Sales[i].customer_id = c
                         /\ HasCustomer(Sales[i]) /\ HasModel(Sales[i])
                         /\ Sales[i].sale_dt <= 20160101}

SaleCustomers == {Sales[i].customer_id : i \in Rows(Sales)}

\* the qualifying sales of customer c for a report
Qual(report, c) == IF report = "new_customers" THEN QualNew(c) ELSE QualOld(c)

\* every customer with a qualifying sale is in exactly one row, with the
\* latest date of those sales, and no other customer is in any row
ListedOnce(report) ==
    /\ \A c \in SaleCustomers :
           Qual(report, c) # {} =>
               /\ Cardinality({k \in Rows(df) : df[k].customer_id = c}) = 1
               /\ \A k \in Rows(df) :
                      df[k].customer_id = c =>
                          /\ \E i \in Qual(report, c) : Sales[i].sale_dt = df[k].sale_dt
                          /\ \A i \in Qual(report, c) : Sales[i].sale_dt <= df[k].sale_dt
    /\ \A k \in Rows(df) : Qual(report, df[k].customer_id) # {}

\* the file holds the frame's rows, in the frame's order
Written ==
    /\ Len(out) = Len(df)
    /\ \A k \in Rows(df) : \A c \in DOMAIN out[k] : out[k][c] = df[k][c]

VehicleOfLatest(report) ==
    \A k \in Rows(df) :
        \E i \in Qual(report, df[k].customer_id) :
            /\ Sales[i].sale_dt = df[k].sale_dt
            /\ df[k].vehicle_brand = Some(ModelOf(Sales[i]).brand_name)
            /\ df[k].vehicle_model = Some(ModelOf(Sales[i]).model_name)
            /\ df[k].vehicle_year = Some(VehicleOf(Sales[i]).vehicle_year)

\* C2: in new_customers and old_customers the row of a customer carries the
\* brand, model and year of the customer's latest qualifying purchase: of a
\* joined row whose sale_dt is the reported one, whatever the order of Sales.
C2_RowCarriesLatestVehicle ==
    /\ (op = "new_customers" /\ ~raised) => VehicleOfLatest("new_customers")
    /\ (op = "old_customers" /\ ~raised) => VehicleOfLatest("old_customers")

\* C3: a report returns 0 when the table is written and 1, without raising,
\* when the write fails; any other error propagates and no status is returned.
C3_StatusCodes ==
    op \in ReportOps =>
        /\ (~raised /\ dest) => (ret = Some(0) /\ Written)
        /\ (~raised /\ ~dest) => (ret = Some(1) /\ out = <<>>)
        /\ raised => ret = NaN
        /\ (db # "ok" \/ con # "open") => raised
        /\ ret # NaN => (db = "ok" /\ con = "open")

\* a report with a frame of rows returned 1 from an unwritable destination
C3_Witness ==
    /\ op \in ReportOps
    /\ ~dest
    /\ ~raised
    /\ ret = Some(1)
    /\ Len(df) > 0

\* the sales that sales_by_brand counts: joined with invoice, vehicle and
\* model, so without a null
BrandSales == {i \in Rows(Sales) : HasInvoice(Sales[i]) /\ HasModel(Sales[i])}

RECURSIVE PriceSum(_)
PriceSum(S) ==
    IF S = {} THEN 0
    ELSE LET i == CHOOSE x \in S : TRUE
         IN  InvoiceOf(Sales[i]).price + PriceSum(S \ {i})

RECURSIVE Total(_, _)
Total(frame, c) ==
    IF frame = <<>> THEN 0 ELSE Head(frame)[c] + Total(Tail(frame), c)

\* C4: each row of sales_by_brand holds the number of the brand's joined
\* null-free sales and the sum of their prices, no brand is in two rows, and
\* the n_sales of all rows add up to the number of such sales.
C4_BrandCountsAndTotals ==
    (op = "sales_by_brand" /\ ~raised) =>
        /\ \A k \in Rows(df) :
               LET S == {i \in BrandSales : BrandCell(Sales[i]) = df[k].vehicle_brand}
               IN  /\ df[k].n_sales = Cardinality(S)
                   /\ df[k].total_value = PriceSum(S)
        /\ \A k, l \in Rows(df) : df[k].vehicle_brand = df[l].vehicle_brand => k = l
        /\ Total(df, "n_sales") = Cardinality(BrandSales)
        /\ ret = Some(0) => Written

\* sales_by_brand wrote two brands, one of several sales of different
\* prices, from a table with a sale it could not join
C4_Witness ==
    /\ op = "sales_by_brand"
    /\ ret = Some(0)
    /\ Len(out) = 2
    /\ \E k \in Rows(out) : out[k].n_sales >= 2 /\ out[k].total_value = 350
    /\ Cardinality(BrandSales) < Len(Sales)

\* C5: of two adjacent rows of sales_by_brand the earlier has n_sales greater
\* than or equal to the later's, and at equal n_sales a total_value greater
\* than or equal to the later's.
C5_SortedBySalesThenValue ==
    (op = "sales_by_brand" /\ ~raised) =>
        \A k \in 1..(Len(df) - 1) :
            /\ df[k].n_sales >= df[k + 1].n_sales
            /\ df[k].n_sales = df[k + 1].n_sales =>
                   df[k].total_value >= df[k + 1].total_value

\* two brands of equal n_sales were written, the later group first because
\* of its greater total_value
C5_Witness ==
    /\ op = "sales_by_brand"
    /\ ret = Some(0)
    /\ Len(out) = 2
    /\ out[1].n_sales = out[2].n_sales
    /\ out[1].total_value > out[2].total_value
    /\ out[1].index > out[2].index

\* the sales of customer c
SalesOfCustomer(c) == {i \in Rows(Sales) : Sales[i].customer_id = c}

KnownCustomers == {Customers[i].customer_id : i \in Rows(Customers)}

\* C6: in next_vehicle a customer with exactly one sale is in no row, and a
\* customer with two or more sales is in exactly one row, also where a
\* sale's vehicle or model is absent.
C6_RepeatCustomersListedOnce ==
    (op = "next_vehicle" /\ db = "ok" /\ con = "open") =>
        \A c \in KnownCustomers :
            LET n    == Cardinality(SalesOfCustomer(c))
                rows == {k \in Rows(df) : df[k].index = c}
            IN  /\ n = 1 => rows = {}
                /\ n >= 2 => Cardinality(rows) = 1

\* C7: __init__ on a path that does not exist does not raise, it logs the
\* error; every report on that object then raises and returns no status; a
\* connection is held, and closed at teardown, only by an object made on an
\* existing file.
C7_MissingFile ==
    /\ op = "__init__" => ~raised
    /\ (op = "__init__" /\ db = "missing") => (log = "error" /\ con = "unset")
    /\ (op \in ReportOps /\ db = "missing") => (raised /\ ret = NaN)
    /\ con \in {"open", "closed"} => db # "missing"
    /\ (obj = "live" /\ db # "missing") => con = "open"
    /\ (obj = "deleted" /\ db # "missing") => con = "closed"
    /\ (obj = "deleted" /\ db = "missing") => con = "unset"

\* a report was called on an object made on a missing file, and raised
C7_Witness ==
    /\ db = "missing"
    /\ obj = "live"
    /\ op \in ReportOps
    /\ raised

\* C8: old_customers lists a customer only if the customer's most recent
\* purchase, of all the customer's sales, is dated before 1 January 2016 (the
\* day itself is let pass here, as the filter lets it): a customer with a
\* later purchase is not listed.
C8_LastPurchaseIsOld ==
    (op = "old_customers" /\ ~raised) =>
        \A k \in Rows(df) :
            \A i \in SalesOfCustomer(df[k].customer_id) :
                Sales[i].sale_dt <= 20160101

\* the brands, not null, that most sales of customer c have
MostBought(c) ==
    LET brands   == {BrandCell(Sales[i]) : i \in SalesOfCustomer(c)} \ {NaN}
        n(b)     == Cardinality({i \in SalesOfCustomer(c) : BrandCell(Sales[i]) = b})
    IN  {b \in brands : \A b2 \in brands : n(b2) <= n(b)}

\* the date of the earliest sale of customer c of brand b
FirstDate(c, b) ==
    LET S == {i \in SalesOfCustomer(c) : BrandCell(Sales[i]) = b}
    IN  Sales[CHOOSE i \in S : \A j \in S : Sales[i].sale_dt <= Sales[j].sale_dt].sale_dt

\* C9 as the spec states it: most_common_second_veh_brand is the most
\* frequent brand of the customer's sales and, of several tied brands, the
\* one met first when the sales are taken in ascending sale_dt.
C9_ModeFirstMetByDate ==
    (op = "next_vehicle" /\ ~raised) =>
        \A k \in Rows(df) :
            LET c == df[k].index
                b == df[k].most_common_second_veh_brand
            IN  /\ b \in MostBought(c)
                /\ \A b2 \in MostBought(c) : FirstDate(c, b) <= FirstDate(c, b2)

\* C9 as amended: most_common_second_veh_brand is the most frequent brand,
\* nulls left out, of the customer's sales and, of several tied brands, the
\* one that is first in ascending order of brand_name.
C9_ModeLeastBrand ==
    (op = "next_vehicle" /\ ~raised) =>
        \A k \in Rows(df) :
            LET c == df[k].index
                b == df[k].most_common_second_veh_brand
            IN  /\ b \in MostBought(c)
                /\ \A b2 \in MostBought(c) : StrRank(b[1]) <= StrRank(b2[1])

\* a customer whose two brands tie, the later name bought first, is
\* reported with the earlier name
C9_Witness ==
    /\ op = "next_vehicle"
    /\ ret = Some(0)
    /\ \E k \in Rows(out) :
           LET c == out[k].index
           IN  /\ MostBought(c) = {Some("Audi"), Some("BMW")}
               /\ FirstDate(c, Some("BMW")) < FirstDate(c, Some("Audi"))
               /\ out[k].most_common_second_veh_brand = Some("Audi")

\* C10: first_veh_brand is the brand_name of the customer's earliest sale,
\* also when that sale has no vehicle or model, and the rows ascend in
\* first_veh_brand.
C10_FirstBrandOfEarliestSale ==
    (op = "next_vehicle" /\ ~raised) =>
        /\ \A k \in Rows(df) :
               \E i \in SalesOfCustomer(df[k].index) :
                   /\ \A j \in SalesOfCustomer(df[k].index) :
                          Sales[i].sale_dt <= Sales[j].sale_dt
                   /\ df[k].first_veh_brand = BrandCell(Sales[i])
        /\ \A k \in 1..(Len(df) - 1) :
               \/ df[k + 1].first_veh_brand = NaN
               \/ /\ df[k].first_veh_brand # NaN
                  /\ StrRank(df[k].first_veh_brand[1])
                         <= StrRank(df[k + 1].first_veh_brand[1])

====
